---------------------------- MODULE Spec2Model ----------------------------
(***************************************************************************)
(* A model of the Sensus API (src/main.py): one SQL table of user records, *)
(* read, patched and cleared in four groups ("peeks") by HTTP handlers,    *)
(* with APNs pushes sent after note and screenshot updates.                *)
(*                                                                         *)
(* Representation.  A Python str is a tuple of one-character strings, so   *)
(* that strip(), split("-") and int() are computed on the characters.      *)
(* None is the tuple None below, which is no str (its element is not one   *)
(* character).  A NULL Integer column is NoneInt.  A datetime is the value *)
(* of the logical clock when utcnow() was called.                          *)
(*                                                                         *)
(* Specifications.  A handler writes the columns of its own peek and       *)
(* updated_at, so each specification runs create_user, the clock and the   *)
(* handlers of the peeks its properties are about:                         *)
(*   Spec          the note peek and push_register                         *)
(*   SpecPush      the two handlers that push: note peek and screen peek   *)
(*   SpecData      the data peek and clear_all                             *)
(*   SpecUpdates   the four partial updates                                *)
(*   SpecBirthday  parse_birthday and format_birthday on their own         *)
(*   SpecThreads   update_note_peek requests running in several threads    *)
(***************************************************************************)
EXTENDS Integers, Sequences, FiniteSets, TLC

VARIABLES
    users,       \* the users table: user_id -> row (the committed state)
    files,       \* the files that exist under UPLOAD_DIR
    clock,       \* what datetime.utcnow() returns now
    env,         \* the process environment (ADMIN_KEY, APNs configuration)
    last,        \* the last request: handler, payload, locals, pushes, response
    registered,  \* history: every device token push_register has stored
    bd,          \* the birthday round trip parse -> format -> parse
    sessions     \* the update_note_peek requests run step by step: each one's
                 \* position, its Session's loaded row and its locals

vars == <<users, files, clock, env, last, registered, bd, sessions>>

---------------------------------------------------------------------------
(* Bounds *)

\* utcnow() takes the values 0..MaxClock.
MaxClock == 1

\* The birthday round trip is run on every string of at most MaxLen
\* characters of BirthdayChars.
MaxLen == 5

\* At most MaxRequests update_note_peek requests run step by step.
MaxRequests == 3

---------------------------------------------------------------------------
(* Python values *)

None == <<"None">>

NoneInt == -1

Whitespace == {" ", "\t", "\n"}

\* bool(x) of an Optional[str]
TruthyStr(s) == s # None /\ s # <<>>

\* bool(x) of an Optional[int]
TruthyInt(n) == n # NoneInt /\ n # 0

RECURSIVE lstrip(_)
lstrip(s) ==
    IF s # <<>> /\ Head(s) \in Whitespace THEN lstrip(Tail(s)) ELSE s

RECURSIVE rstrip(_)
rstrip(s) ==
    IF s # <<>> /\ s[Len(s)] \in Whitespace
    THEN rstrip(SubSeq(s, 1, Len(s) - 1))
    ELSE s

\* str.strip()
strip(s) == rstrip(lstrip(s))

\* x or ""
OrEmpty(s) == IF TruthyStr(s) THEN s ELSE <<>>

---------------------------------------------------------------------------
(* Inputs *)

UserIds == {"u1"}

Passwords == {<<"p">>}

AdminKeys == {<<"k">>, <<"z">>}

\* note_name / note_body values of a NotePeekUpdate: absent, blank, and two
\* different texts, one of which strip() changes.
NoteValues == {None, <<" ">>, <<"A">>, <<"B", " ">>}

\* device_token values of a PushRegisterRequest
TokenValues == {<<" ">>, <<"t", "1">>, <<"t", "2", " ">>}

EmptyPrefs == [k \in {} |-> TRUE]

\* preferences of a PushRegisterRequest; None and {} are both {} after
\* "payload.preferences or {}"
PrefsValues ==
    { EmptyPrefs,
      [note_name |-> FALSE],
      [note_name |-> TRUE, note_body |-> FALSE, screenshot |-> FALSE] }

\* what a call of client.send_notification can do
SendOutcomes == {"sent", "failed"}

---------------------------------------------------------------------------
(* The environment *)

\* os.getenv of the variables the program reads.  key_path_ok: the .p8
\* value names an existing file or can be written to /tmp.
Envs ==
    { [ADMIN_KEY |-> <<"k">>, APNS_KEY_ID |-> <<"K">>, APNS_TEAM_ID |-> <<"T">>,
       APNS_BUNDLE_ID |-> <<"B">>, APNS_AUTH_KEY_P8 |-> <<"8">>, key_path_ok |-> TRUE],
      [ADMIN_KEY |-> <<"k">>, APNS_KEY_ID |-> None, APNS_TEAM_ID |-> None,
       APNS_BUNDLE_ID |-> None, APNS_AUTH_KEY_P8 |-> None, key_path_ok |-> TRUE],
      [ADMIN_KEY |-> None, APNS_KEY_ID |-> <<"K">>, APNS_TEAM_ID |-> <<"T">>,
       APNS_BUNDLE_ID |-> <<"B">>, APNS_AUTH_KEY_P8 |-> <<"8">>, key_path_ok |-> FALSE] }

resolve_apns_auth_key_path(e) ==
    IF ~TruthyStr(e.APNS_AUTH_KEY_P8) THEN None
    ELSE IF e.key_path_ok THEN <<"/tmp/apns_auth_key.p8">>
    ELSE None

apns_is_configured(e) ==
    /\ TruthyStr(e.APNS_KEY_ID)
    /\ TruthyStr(e.APNS_TEAM_ID)
    /\ TruthyStr(e.APNS_BUNDLE_ID)
    /\ TruthyStr(resolve_apns_auth_key_path(e))

---------------------------------------------------------------------------
(* APNs *)

\* send_apns_push letting the exception of client.send_notification through
send_apns_push_raises(e, device_token, notif_type, body, outcome) ==
    [token |-> device_token, type |-> notif_type, body |-> body,
     title |-> IF apns_is_configured(e) THEN "Sensus" ELSE "",
     result |-> IF apns_is_configured(e) THEN outcome ELSE "not_configured",
     raised |-> apns_is_configured(e) /\ outcome = "failed"]

\* One call of send_apns_push, as the record of what it did: its arguments,
\* the alert title of the Payload it built ("" when it built none), and
\* result: "not_configured" (it returned before building a client), "sent",
\* or "failed" (client.send_notification raised and the except clause
\* returned).  raised: whether the call raised to its caller.

send_apns_push(e, device_token, notif_type, body, outcome) ==
    IF ~apns_is_configured(e)
    THEN [token |-> device_token, type |-> notif_type, body |-> body,
          title |-> "", result |-> "not_configured", raised |-> FALSE]
    ELSE IF ~TruthyStr(resolve_apns_auth_key_path(e))
    THEN [token |-> device_token, type |-> notif_type, body |-> body,
          title |-> "", result |-> "not_configured", raised |-> FALSE]
    ELSE [token |-> device_token, type |-> notif_type, body |-> body,
          title |-> "Sensus", result |-> outcome, raised |-> FALSE]

---------------------------------------------------------------------------
(* The users table *)

\* User(user_id=..., password=...) as inserted: the column defaults applied
NewUser(password, now) ==
    [password |-> password,
     first_name |-> None, last_name |-> None, phone_number |-> None,
     birthday |-> None, birthday_year |-> NoneInt, birthday_month |-> NoneInt,
     birthday_day |-> NoneInt, address |-> None, data_peek_updated_at |-> now,
     note_name |-> None, note_body |-> None, note_peek_updated_at |-> now,
     contact |-> None, screenshot_path |-> None, url |-> None,
     screen_peek_updated_at |-> now,
     command |-> None, command_updated_at |-> now,
     apns_device_token |-> None, push_note_name_enabled |-> TRUE,
     push_note_body_enabled |-> TRUE, push_screenshot_enabled |-> TRUE,
     push_updated_at |-> now,
     created_at |-> now, updated_at |-> now]

touch_updated(user, now) == [user EXCEPT !.updated_at = now]

\* iso(dt): the datetime to the second, then "Z"
iso(dt) == <<dt, "Z">>

NoLocals == [k \in {} |-> TRUE]

\* The record of a request: the handler, its arguments, its local variables
\* when it returned or raised, the pushes it made, and the response.
Request(op, user_id, payload, locals, pushes, status, body) ==
    [op |-> op, user_id |-> user_id, payload |-> payload, locals |-> locals,
     pushes |-> pushes, status |-> status, body |-> body]

\* get_user_or_404 raising: HTTPException(404, "User not found")
NotFound(op, user_id, payload) ==
    Request(op, user_id, payload, NoLocals, <<>>, 404, "User not found")

---------------------------------------------------------------------------
(* POST /auth/create_user *)

create_user(admin_key, user_id, password) ==
    LET payload == [user_id |-> user_id, password |-> password, admin_key |-> admin_key]
    IN
    \/ /\ env.ADMIN_KEY = None
       /\ last' = Request("create_user", user_id, payload, NoLocals, <<>>, 500, "ADMIN_KEY not set")
       /\ UNCHANGED <<users, files, clock, env, registered, bd, sessions>>
    \/ /\ env.ADMIN_KEY # None
       /\ admin_key # env.ADMIN_KEY
       /\ last' = Request("create_user", user_id, payload, NoLocals, <<>>, 403, "Invalid admin key")
       /\ UNCHANGED <<users, files, clock, env, registered, bd, sessions>>
    \/ /\ env.ADMIN_KEY # None
       /\ admin_key = env.ADMIN_KEY
       /\ user_id \in DOMAIN users
       /\ users' = [users EXCEPT ![user_id] = touch_updated([@ EXCEPT !.password = password], clock)]
       /\ last' = Request("create_user", user_id, payload, NoLocals, <<>>, 200, "updated")
       /\ UNCHANGED <<files, clock, env, registered, bd, sessions>>
    \/ /\ env.ADMIN_KEY # None
       /\ admin_key = env.ADMIN_KEY
       /\ user_id \notin DOMAIN users
       /\ users' = [u \in DOMAIN users \cup {user_id} |->
                       IF u = user_id THEN NewUser(password, clock) ELSE users[u]]
       /\ last' = Request("create_user", user_id, payload, NoLocals, <<>>, 200, "created")
       /\ UNCHANGED <<files, clock, env, registered, bd, sessions>>

---------------------------------------------------------------------------
(* POST /push/register *)

\* prefs.get(key, True)
PrefGet(prefs, key) == IF key \in DOMAIN prefs THEN prefs[key] ELSE TRUE

\* The row push_register commits, a second registration keeping the token
\* already stored.
push_register_keep_first(user, token, prefs, now) ==
    touch_updated(
        [user EXCEPT !.apns_device_token = IF TruthyStr(@) THEN @ ELSE token,
                     !.push_note_name_enabled = PrefGet(prefs, "note_name"),
                     !.push_note_body_enabled = PrefGet(prefs, "note_body"),
                     !.push_screenshot_enabled = PrefGet(prefs, "screenshot"),
                     !.push_updated_at = now],
        now)

\* The row push_register commits: the one token column is overwritten.
push_register_row(user, token, prefs, now) ==
    touch_updated(
        [user EXCEPT !.apns_device_token = token,
                     !.push_note_name_enabled = PrefGet(prefs, "note_name"),
                     !.push_note_body_enabled = PrefGet(prefs, "note_body"),
                     !.push_screenshot_enabled = PrefGet(prefs, "screenshot"),
                     !.push_updated_at = now],
        now)

push_register(user_id, device_token, preferences) ==
    LET payload == [user_id |-> user_id, device_token |-> device_token,
                    preferences |-> preferences]
        token == strip(OrEmpty(device_token))
    IN
    \/ /\ user_id \notin DOMAIN users
       /\ last' = NotFound("push_register", user_id, payload)
       /\ UNCHANGED <<users, files, clock, env, registered, bd, sessions>>
    \/ /\ user_id \in DOMAIN users
       /\ ~TruthyStr(token)
       /\ last' = Request("push_register", user_id, payload, [token |-> token],
                          <<>>, 400, "device_token required")
       /\ UNCHANGED <<users, files, clock, env, registered, bd, sessions>>
    \/ /\ user_id \in DOMAIN users
       /\ TruthyStr(token)
       /\ users' = [users EXCEPT ![user_id] = push_register_row(@, token, preferences, clock)]
       /\ registered' = registered \cup {token}
       /\ last' = Request("push_register", user_id, payload, [token |-> token],
                          <<>>, 200,
                          [status |-> "registered",
                           preferences |-> [note_name |-> users'[user_id].push_note_name_enabled,
                                            note_body |-> users'[user_id].push_note_body_enabled,
                                            screenshot |-> users'[user_id].push_screenshot_enabled],
                           apns_configured |-> apns_is_configured(env)])
       /\ UNCHANGED <<files, clock, env, bd, sessions>>

---------------------------------------------------------------------------
(* GET, POST /note_peek/{user_id}, POST /note_peek/{user_id}/clear *)

get_note_peek(user_id) ==
    \/ /\ user_id \notin DOMAIN users
       /\ last' = NotFound("get_note_peek", user_id, NoLocals)
       /\ UNCHANGED <<users, files, clock, env, registered, bd, sessions>>
    \/ /\ user_id \in DOMAIN users
       /\ last' = Request("get_note_peek", user_id, NoLocals, NoLocals, <<>>, 200,
                          [note_name |-> users[user_id].note_name,
                           note_body |-> users[user_id].note_body,
                           updated_at |-> iso(users[user_id].note_peek_updated_at)])
       /\ UNCHANGED <<users, files, clock, env, registered, bd, sessions>>

\* name_changed, set whenever the payload carries a note_name
name_changed_if_present(payload, old_name) == payload.note_name # None

\* name_changed: False unless the payload carries a note_name, then
\* payload.note_name != old_name
name_changed(payload, old_name) ==
    IF payload.note_name # None THEN payload.note_name # old_name ELSE FALSE

\* body_changed, likewise
body_changed(payload, old_body) ==
    IF payload.note_body # None THEN payload.note_body # old_body ELSE FALSE

\* The row update_note_peek commits
note_peek_row(user, payload, now) ==
    touch_updated(
        [user EXCEPT !.note_name = IF payload.note_name # None THEN payload.note_name ELSE @,
                     !.note_body = IF payload.note_body # None THEN payload.note_body ELSE @,
                     !.note_peek_updated_at = now],
        now)

\* The note_name condition with the channel flag left out
notify_name_any_flag(user, nc, new_name) ==
    TruthyStr(user.apns_device_token) /\ nc /\ TruthyStr(new_name)

\* "if token: if name_changed and user.push_note_name_enabled and new_name"
notify_name(user, nc, new_name) ==
    /\ TruthyStr(user.apns_device_token)
    /\ nc
    /\ user.push_note_name_enabled
    /\ TruthyStr(new_name)

\* The note_body condition testing the new body instead of the name
notify_body_on_body(user, bc, new_name) ==
    /\ TruthyStr(user.apns_device_token)
    /\ bc
    /\ user.push_note_body_enabled
    /\ TruthyStr(strip(OrEmpty(user.note_body)))

\* "if token: if body_changed and user.push_note_body_enabled and new_name"
notify_body(user, bc, new_name) ==
    /\ TruthyStr(user.apns_device_token)
    /\ bc
    /\ user.push_note_body_enabled
    /\ TruthyStr(new_name)

\* " body updated"
BodyUpdated == <<" ", "b", "o", "d", "y", " ", "u", "p", "d", "a", "t", "e", "d">>

\* The two calls made in the other order: note_body first
note_pushes_body_first(e, user, nc, bc, new_name, o1, o2) ==
    LET first == IF notify_body(user, bc, new_name)
                 THEN <<send_apns_push(e, user.apns_device_token, "note_body",
                                       new_name \o BodyUpdated, o2)>>
                 ELSE <<>>
        second == IF notify_name(user, nc, new_name)
                  THEN <<send_apns_push(e, user.apns_device_token, "note_name", new_name, o1)>>
                  ELSE <<>>
    IN  first \o second

\* The calls of send_apns_push update_note_peek makes after the commit, in
\* order; a call that raises ends the handler.
note_pushes(e, user, nc, bc, new_name, o1, o2) ==
    LET first == IF notify_name(user, nc, new_name)
                 THEN <<send_apns_push(e, user.apns_device_token, "note_name", new_name, o1)>>
                 ELSE <<>>
        second == IF notify_body(user, bc, new_name)
                  THEN <<send_apns_push(e, user.apns_device_token, "note_body",
                                        new_name \o BodyUpdated, o2)>>
                  ELSE <<>>
    IN  IF first # <<>> /\ first[1].raised THEN first ELSE first \o second

\* Whether one of the calls raised to the handler
Raised(pushes) == \E i \in 1..Len(pushes) : pushes[i].raised

\* What client.send_notification can do in a call the handler makes
OutcomesOf(called) ==
    IF called /\ apns_is_configured(env) THEN SendOutcomes ELSE {"none"}

update_note_peek(user_id, payload) ==
    \/ /\ user_id \notin DOMAIN users
       /\ last' = NotFound("update_note_peek", user_id, payload)
       /\ UNCHANGED <<users, files, clock, env, registered, bd, sessions>>
    \/ /\ user_id \in DOMAIN users
       /\ LET user == users[user_id]
              old_name == user.note_name
              old_body == user.note_body
              nc == name_changed(payload, old_name)
              bc == body_changed(payload, old_body)
              row == note_peek_row(user, payload, clock)
              new_name == strip(OrEmpty(row.note_name))
          IN  \E o1 \in OutcomesOf(notify_name(row, nc, new_name)),
                 o2 \in OutcomesOf(notify_body(row, bc, new_name)) :
              LET pushes == note_pushes(env, row, nc, bc, new_name, o1, o2)
              IN
              /\ users' = [users EXCEPT ![user_id] = row]
              /\ last' = Request("update_note_peek", user_id, payload,
                                 [old_name |-> old_name, old_body |-> old_body,
                                  name_changed |-> nc, body_changed |-> bc,
                                  new_name |-> new_name],
                                 pushes,
                                 IF Raised(pushes) THEN 500 ELSE 200,
                                 IF Raised(pushes) THEN "Internal Server Error" ELSE "updated")
       /\ UNCHANGED <<files, clock, env, registered, bd, sessions>>

clear_note_peek(user_id) ==
    \/ /\ user_id \notin DOMAIN users
       /\ last' = NotFound("clear_note_peek", user_id, NoLocals)
       /\ UNCHANGED <<users, files, clock, env, registered, bd, sessions>>
    \/ /\ user_id \in DOMAIN users
       /\ users' = [users EXCEPT ![user_id] =
                       touch_updated([@ EXCEPT !.note_name = None, !.note_body = None,
                                               !.note_peek_updated_at = clock], clock)]
       /\ last' = Request("clear_note_peek", user_id, NoLocals, NoLocals, <<>>, 200, "cleared")
       /\ UNCHANGED <<files, clock, env, registered, bd, sessions>>

---------------------------------------------------------------------------
(* Time *)

\* Time passes between two calls of datetime.utcnow().
Tick ==
    /\ clock < MaxClock
    /\ clock' = clock + 1
    /\ UNCHANGED <<users, files, env, last, registered, bd, sessions>>

---------------------------------------------------------------------------
(* The server *)

NoRequest == Request("none", "", NoLocals, NoLocals, <<>>, 0, "")

NoUsers == [u \in {} |-> TRUE]

BdIdle == [pc |-> "idle"]

\* The update_note_peek requests that run step by step, numbered in the
\* order they arrive
Requests == 1..MaxRequests

\* No such request has arrived.
NoSessions == [r \in Requests |-> [pc |-> "idle"]]

\* The tables are created empty at import; the environment is read once.
Init ==
    /\ users = NoUsers
    /\ files = {}
    /\ clock = 0
    /\ env \in Envs
    /\ last = NoRequest
    /\ registered = {}
    /\ bd = BdIdle
    /\ sessions = NoSessions

NotePayloads == [note_name : NoteValues, note_body : NoteValues]

Next ==
    \/ \E k \in AdminKeys, u \in UserIds, p \in Passwords : create_user(k, u, p)
    \/ \E u \in UserIds, t \in TokenValues, p \in PrefsValues : push_register(u, t, p)
    \/ \E u \in UserIds : get_note_peek(u)
    \/ \E u \in UserIds, p \in NotePayloads : update_note_peek(u, p)
    \/ \E u \in UserIds : clear_note_peek(u)
    \/ Tick

Spec == Init /\ [][Next]_vars

---------------------------------------------------------------------------
(* Notifications of update_note_peek *)

\* The last request was an update_note_peek that found its user.
NoteUpdated == last.op = "update_note_peek" /\ last.status # 404

\* The user of the last request, as committed
Row == users[last.user_id]

\* The calls of send_apns_push of the last request with this type
PushesOf(type) == {i \in 1..Len(last.pushes) : last.pushes[i].type = type}

\* The last request patched note_name alone, from a value to another,
\* non-empty one, for a user with a registered device token.
NameAlonePatched ==
    /\ NoteUpdated
    /\ last.locals.old_name # None
    /\ last.payload.note_name # None
    /\ last.payload.note_name # <<>>
    /\ last.payload.note_name # last.locals.old_name
    /\ last.payload.note_body = None
    /\ TruthyStr(Row.apns_device_token)

C2_UnchangedValueNoNotification ==
    NoteUpdated =>
        /\ (last.payload.note_name = last.locals.old_name => PushesOf("note_name") = {})
        /\ (last.payload.note_body = last.locals.old_body => PushesOf("note_body") = {})

\* C2's case: note_name "A" patched to "A" with the channel enabled and a
\* token registered, and nothing was pushed.
C2_Witness ==
    /\ NoteUpdated
    /\ last.locals.old_name = <<"A">>
    /\ last.payload.note_name = <<"A">>
    /\ last.payload.note_body = None
    /\ Row.push_note_name_enabled
    /\ TruthyStr(Row.apns_device_token)
    /\ last.pushes = <<>>

\* The channel's change qualifies for a notification, by the code's rule.
Qualifies(type) ==
    /\ NoteUpdated
    /\ TruthyStr(Row.apns_device_token)
    /\ TruthyStr(strip(OrEmpty(Row.note_name)))
    /\ IF type = "note_name"
       THEN /\ last.payload.note_name # None
            /\ last.payload.note_name # last.locals.old_name
            /\ Row.push_note_name_enabled
       ELSE /\ last.payload.note_body # None
            /\ last.payload.note_body # last.locals.old_body
            /\ Row.push_note_body_enabled

C10_Original ==
    NoteUpdated =>
        /\ PushesOf("note_name") # {} =>
               /\ Row.push_note_name_enabled
               /\ TruthyStr(Row.apns_device_token)
               /\ TruthyStr(strip(OrEmpty(Row.note_name)))
        /\ PushesOf("note_body") # {} =>
               /\ Row.push_note_body_enabled
               /\ TruthyStr(Row.apns_device_token)
               /\ TruthyStr(strip(OrEmpty(Row.note_body)))

\* C10 as amended: a changed note_name or note_body produces a push if and
\* only if that field's channel is enabled, a device token is registered,
\* and the note_name now stored is non-empty after trimming.  The test is on
\* note_name for both channels: a note_body changed to an empty or blank
\* value is still pushed when note_name is non-empty.
C10_Amended ==
    NoteUpdated =>
        /\ PushesOf("note_name") # {} <=>
               /\ last.payload.note_name # None
               /\ last.payload.note_name # last.locals.old_name
               /\ Row.push_note_name_enabled
               /\ TruthyStr(Row.apns_device_token)
               /\ TruthyStr(strip(OrEmpty(Row.note_name)))
        /\ PushesOf("note_body") # {} <=>
               /\ last.payload.note_body # None
               /\ last.payload.note_body # last.locals.old_body
               /\ Row.push_note_body_enabled
               /\ TruthyStr(Row.apns_device_token)
               /\ TruthyStr(strip(OrEmpty(Row.note_name)))

\* C10's case: note_body went from "A" to a blank value under the name "A",
\* and the note_body push was made.
C10_Witness ==
    /\ NoteUpdated
    /\ last.locals.old_body = <<"A">>
    /\ last.payload.note_body = <<" ">>
    /\ Row.note_name = <<"A">>
    /\ PushesOf("note_body") # {}
    /\ \A i \in PushesOf("note_body") : last.pushes[i].body = <<"A">> \o BodyUpdated

---------------------------------------------------------------------------
(* /screen_peek/{user_id} *)

\* An uploaded file's filename is held as os.path.splitext splits it:
\* (root, ext).

\* No file part in the form
NoFile == <<"None", "None">>

\* The multipart forms posted: a file alone, each text field alone, and
\* another file with both text fields
ScreenForms ==
    { [screenshot |-> <<"shot", ".png">>, contact |-> None, url |-> None],
      [screenshot |-> NoFile, contact |-> <<"c">>, url |-> None],
      [screenshot |-> NoFile, contact |-> None, url |-> <<"w">>],
      [screenshot |-> <<"shot", ".jpg">>, contact |-> <<"d">>, url |-> <<"w">>] }

\* os.path.join(UPLOAD_DIR, f"{user_id}{ext}")
UploadPath(user_id, filename) == <<"uploads", user_id, filename[2]>>

\* delete_screenshot(path): os.remove if the path is set and exists
delete_screenshot(fs, path) == IF path # None /\ path \in fs THEN fs \ {path} ELSE fs

\* "New screenshot"
NewScreenshot == <<"N", "e", "w", " ", "s", "c", "r", "e", "e", "n", "s", "h", "o", "t">>

get_screen_peek(user_id) ==
    \/ /\ user_id \notin DOMAIN users
       /\ last' = NotFound("get_screen_peek", user_id, NoLocals)
       /\ UNCHANGED <<users, files, clock, env, registered, bd, sessions>>
    \/ /\ user_id \in DOMAIN users
       /\ last' = Request("get_screen_peek", user_id, NoLocals, NoLocals, <<>>, 200,
                          [contact |-> users[user_id].contact,
                           url |-> users[user_id].url,
                           screenshot_path |-> users[user_id].screenshot_path,
                           screenshot_updated_at |-> iso(users[user_id].screen_peek_updated_at)])
       /\ UNCHANGED <<users, files, clock, env, registered, bd, sessions>>

download_screenshot(user_id) ==
    \/ /\ user_id \notin DOMAIN users
       /\ last' = NotFound("download_screenshot", user_id, NoLocals)
       /\ UNCHANGED <<users, files, clock, env, registered, bd, sessions>>
    \/ /\ user_id \in DOMAIN users
       /\ users[user_id].screenshot_path = None \/ users[user_id].screenshot_path \notin files
       /\ last' = Request("download_screenshot", user_id, NoLocals, NoLocals, <<>>, 404,
                          "No screenshot found")
       /\ UNCHANGED <<users, files, clock, env, registered, bd, sessions>>
    \/ /\ user_id \in DOMAIN users
       /\ users[user_id].screenshot_path # None
       /\ users[user_id].screenshot_path \in files
       /\ last' = Request("download_screenshot", user_id, NoLocals, NoLocals, <<>>, 200,
                          users[user_id].screenshot_path)
       /\ UNCHANGED <<users, files, clock, env, registered, bd, sessions>>

\* The row update_screen_peek commits
screen_peek_row(user, user_id, screenshot, contact, url, now) ==
    LET touched == screenshot # NoFile \/ contact # None \/ url # None
    IN  touch_updated(
            [user EXCEPT !.screenshot_path =
                             IF screenshot # NoFile THEN UploadPath(user_id, screenshot) ELSE @,
                         !.contact = IF contact # None THEN contact ELSE @,
                         !.url = IF url # None THEN url ELSE @,
                         !.screen_peek_updated_at = IF touched THEN now ELSE @],
            now)

\* "if screenshot_updated and user.apns_device_token and user.push_screenshot_enabled"
notify_screenshot(user, screenshot_updated) ==
    /\ screenshot_updated
    /\ TruthyStr(user.apns_device_token)
    /\ user.push_screenshot_enabled

update_screen_peek(user_id, screenshot, contact, url) ==
    LET payload == [screenshot |-> screenshot, contact |-> contact, url |-> url]
    IN
    \/ /\ user_id \notin DOMAIN users
       /\ last' = NotFound("update_screen_peek", user_id, payload)
       /\ UNCHANGED <<users, files, clock, env, registered, bd, sessions>>
    \/ /\ user_id \in DOMAIN users
       /\ LET user == users[user_id]
              screenshot_updated == screenshot # NoFile
              row == screen_peek_row(user, user_id, screenshot, contact, url, clock)
          IN  \E o \in OutcomesOf(notify_screenshot(row, screenshot_updated)) :
              LET pushes == IF notify_screenshot(row, screenshot_updated)
                            THEN <<send_apns_push(env, row.apns_device_token, "screenshot",
                                                  NewScreenshot, o)>>
                            ELSE <<>>
              IN
              /\ files' = IF screenshot_updated
                          THEN delete_screenshot(files, user.screenshot_path)
                                   \cup {UploadPath(user_id, screenshot)}
                          ELSE files
              /\ users' = [users EXCEPT ![user_id] = row]
              /\ last' = Request("update_screen_peek", user_id, payload,
                                 [screenshot_updated |-> screenshot_updated],
                                 pushes,
                                 IF Raised(pushes) THEN 500 ELSE 200,
                                 IF Raised(pushes) THEN "Internal Server Error" ELSE "updated")
       /\ UNCHANGED <<clock, env, registered, bd, sessions>>

clear_screen_peek(user_id) ==
    \/ /\ user_id \notin DOMAIN users
       /\ last' = NotFound("clear_screen_peek", user_id, NoLocals)
       /\ UNCHANGED <<users, files, clock, env, registered, bd, sessions>>
    \/ /\ user_id \in DOMAIN users
       /\ files' = delete_screenshot(files, users[user_id].screenshot_path)
       /\ users' = [users EXCEPT ![user_id] =
                       touch_updated([@ EXCEPT !.contact = None, !.url = None,
                                               !.screenshot_path = None,
                                               !.screen_peek_updated_at = clock], clock)]
       /\ last' = Request("clear_screen_peek", user_id, NoLocals, NoLocals, <<>>, 200, "cleared")
       /\ UNCHANGED <<clock, env, registered, bd, sessions>>

---------------------------------------------------------------------------
(* The server, seen from the push side: both handlers that push *)

\* The note patches tried next to the screen updates
PushNotePayloads ==
    { [note_name |-> <<"A">>, note_body |-> None],
      [note_name |-> <<"B", " ">>, note_body |-> <<" ">>] }

PushTokenValues == {<<" ">>, <<"t", "1">>}

PushPrefsValues == {EmptyPrefs, [screenshot |-> FALSE]}

NextPush ==
    \/ \E k \in AdminKeys, u \in UserIds, p \in Passwords : create_user(k, u, p)
    \/ \E u \in UserIds, t \in PushTokenValues, p \in PushPrefsValues : push_register(u, t, p)
    \/ \E u \in UserIds, p \in PushNotePayloads : update_note_peek(u, p)
    \/ \E u \in UserIds, f \in ScreenForms :
           update_screen_peek(u, f.screenshot, f.contact, f.url)
    \/ \E u \in UserIds : get_screen_peek(u)
    \/ \E u \in UserIds : download_screenshot(u)
    \/ \E u \in UserIds : clear_screen_peek(u)
    \/ Tick

SpecPush == Init /\ [][NextPush]_vars


\* The last request was an update that pushes, and found its user.
PushingUpdate ==
    /\ last.op \in {"update_note_peek", "update_screen_peek"}
    /\ last.status # 404

\* A delivery of the last request failed.
DeliveryFailed == \E i \in 1..Len(last.pushes) : last.pushes[i].result = "failed"

\* What the last request's payload carried is what the table now holds.
Persisted ==
    IF last.op = "update_note_peek"
    THEN /\ last.payload.note_name # None => Row.note_name = last.payload.note_name
         /\ last.payload.note_body # None => Row.note_body = last.payload.note_body
    ELSE /\ last.payload.screenshot # NoFile =>
                /\ Row.screenshot_path = UploadPath(last.user_id, last.payload.screenshot)
                /\ Row.screenshot_path \in files
         /\ last.payload.contact # None => Row.contact = last.payload.contact
         /\ last.payload.url # None => Row.url = last.payload.url

\* C4: when a delivery made by update_note_peek or update_screen_peek fails,
\* the failure does not reach the caller: the patch is committed, the
\* response is the success response, and no channel is pushed a second time.
C4_DeliveryFailureIsolated ==
    (PushingUpdate /\ DeliveryFailed) =>
        /\ last.status = 200
        /\ last.body = "updated"
        /\ Persisted
        /\ \A i \in 1..Len(last.pushes) : ~last.pushes[i].raised
        /\ \A type \in {"note_name", "note_body", "screenshot"} :
               Cardinality(PushesOf(type)) <= 1

\* C4's case: a screenshot was uploaded, its push failed, and the upload is
\* stored and reported as updated.
C4_Witness ==
    /\ last.op = "update_screen_peek"
    /\ DeliveryFailed
    /\ last.status = 200
    /\ Row.screenshot_path = UploadPath(last.user_id, last.payload.screenshot)
    /\ Row.screenshot_path \in files

---------------------------------------------------------------------------
(* Birthdays *)

Digits == <<"0", "1", "2", "3", "4", "5", "6", "7", "8", "9">>

IsDigit(c) == \E i \in 1..10 : Digits[i] = c

DigitValue(c) == (CHOOSE i \in 1..10 : Digits[i] = c) - 1

\* str(n) of an int n >= 0
RECURSIVE str(_)
str(n) == IF n < 10 THEN <<Digits[n + 1]>> ELSE str(n \div 10) \o <<Digits[(n % 10) + 1]>>

\* The value of a non-empty run of decimal digits
RECURSIVE DecimalValue(_)
DecimalValue(s) ==
    IF Len(s) = 1 THEN DigitValue(s[1])
    ELSE 10 * DecimalValue(SubSeq(s, 1, Len(s) - 1)) + DigitValue(s[Len(s)])

\* int(s): surrounding whitespace is dropped, one "+" may lead, and the rest
\* must be decimal digits, at least one.  ValueError is [ok |-> FALSE].
\* ("-" never reaches int here, the string having been split at "-"; "_"
\* between digits is outside the characters tried.)
int(s) ==
    LET t == strip(s)
        u == IF t # <<>> /\ Head(t) = "+" THEN Tail(t) ELSE t
    IN  IF u # <<>> /\ \A i \in 1..Len(u) : IsDigit(u[i])
        THEN [ok |-> TRUE, value |-> DecimalValue(u)]
        ELSE [ok |-> FALSE, value |-> NoneInt]

\* raw.split("-")
RECURSIVE split(_)
split(s) ==
    IF \A i \in 1..Len(s) : s[i] # "-" THEN <<s>>
    ELSE LET k == CHOOSE i \in 1..Len(s) : s[i] = "-" /\ \A j \in 1..(i - 1) : s[j] # "-"
         IN  <<SubSeq(s, 1, k - 1)>> \o split(SubSeq(s, k + 1, Len(s)))

\* HTTPException(400, "Invalid birthday format")
InvalidBirthday == [ok |-> FALSE, year |-> NoneInt, month |-> NoneInt, day |-> NoneInt]

\* parse_birthday(raw): (year, month, day) of 'YYYY-MM-DD', (None, month,
\* day) of 'MM-DD'; every exception in the body, the AttributeError of a
\* None included, becomes the HTTPException.
parse_birthday(raw) ==
    IF raw = None THEN InvalidBirthday
    ELSE LET parts == split(raw)
         IN  IF Len(parts) = 3
             THEN IF \A i \in 1..3 : int(parts[i]).ok
                  THEN [ok |-> TRUE, year |-> int(parts[1]).value,
                        month |-> int(parts[2]).value, day |-> int(parts[3]).value]
                  ELSE InvalidBirthday
             ELSE IF Len(parts) = 2
             THEN IF \A i \in 1..2 : int(parts[i]).ok
                  THEN [ok |-> TRUE, year |-> NoneInt,
                        month |-> int(parts[1]).value, day |-> int(parts[2]).value]
                  ELSE InvalidBirthday
             ELSE InvalidBirthday

\* calendar.month_abbr[1..12]
month_abbr ==
    << <<"J", "a", "n">>, <<"F", "e", "b">>, <<"M", "a", "r">>, <<"A", "p", "r">>,
       <<"M", "a", "y">>, <<"J", "u", "n">>, <<"J", "u", "l">>, <<"A", "u", "g">>,
       <<"S", "e", "p">>, <<"O", "c", "t">>, <<"N", "o", "v">>, <<"D", "e", "c">> >>

\* format_birthday returning the raw string whatever was parsed
format_birthday_raw(user) == [raised |-> FALSE, value |-> user.birthday]

\* format_birthday(user): 'May 1 1990', 'May 1', or the raw string.
\* calendar.month_abbr[m] raises IndexError for m > 12: raised is TRUE.
format_birthday(user) ==
    IF TruthyInt(user.birthday_month) /\ TruthyInt(user.birthday_day)
    THEN IF user.birthday_month > 12
         THEN [raised |-> TRUE, value |-> None]
         ELSE IF TruthyInt(user.birthday_year)
         THEN [raised |-> FALSE,
               value |-> month_abbr[user.birthday_month] \o <<" ">> \o str(user.birthday_day)
                             \o <<" ">> \o str(user.birthday_year)]
         ELSE [raised |-> FALSE,
               value |-> month_abbr[user.birthday_month] \o <<" ">> \o str(user.birthday_day)]
    ELSE [raised |-> FALSE, value |-> user.birthday]

---------------------------------------------------------------------------
(* The birthday round trip: parse, format what was parsed, parse again *)

BirthdayChars == {"0", "1", "3", "-", " "}

RECURSIVE StringsOfLength(_)
StringsOfLength(n) ==
    IF n = 0 THEN {<<>>}
    ELSE {Append(s, c) : s \in StringsOfLength(n - 1), c \in BirthdayChars}

\* Every string of at most MaxLen of the characters, and the strings the
\* specification names
BirthdayStrings ==
    UNION {StringsOfLength(n) : n \in 0..MaxLen}
        \cup { <<"2", "0", "2", "4", "-", "0", "3", "-", "1", "5">>,
               <<"0", "3", "-", "1", "5">>,
               <<"1", "3", "-", "4", "0">> }

\* The birthday columns update_data_peek stores for an accepted string
BirthdayColumns(raw, parsed) ==
    [birthday |-> raw, birthday_year |-> parsed.year,
     birthday_month |-> parsed.month, birthday_day |-> parsed.day]

InitBirthday ==
    /\ users = NoUsers
    /\ files = {}
    /\ clock = 0
    /\ env \in {e \in Envs : e.ADMIN_KEY # None /\ apns_is_configured(e)}
    /\ last = NoRequest
    /\ registered = {}
    /\ bd \in {[pc |-> "start", raw |-> s] : s \in BirthdayStrings}
    /\ sessions = NoSessions

bd_parse ==
    /\ bd.pc = "start"
    /\ bd' = [pc |-> IF parse_birthday(bd.raw).ok THEN "parsed" ELSE "rejected",
              raw |-> bd.raw, parsed |-> parse_birthday(bd.raw)]
    /\ UNCHANGED <<users, files, clock, env, last, registered, sessions>>

bd_format ==
    /\ bd.pc = "parsed"
    /\ LET f == format_birthday(BirthdayColumns(bd.raw, bd.parsed))
       IN  bd' = [pc |-> IF f.raised THEN "format_raised" ELSE "formatted",
                  raw |-> bd.raw, parsed |-> bd.parsed, formatted |-> f.value]
    /\ UNCHANGED <<users, files, clock, env, last, registered, sessions>>

bd_reparse ==
    /\ bd.pc = "formatted"
    /\ bd' = [pc |-> "done", raw |-> bd.raw, parsed |-> bd.parsed,
              formatted |-> bd.formatted, reparsed |-> parse_birthday(bd.formatted)]
    /\ UNCHANGED <<users, files, clock, env, last, registered, sessions>>

NextBirthday == bd_parse \/ bd_format \/ bd_reparse

SpecBirthday == InitBirthday /\ [][NextBirthday]_vars

\* parse_birthday accepted the string with a month and a day in range.
WellFormed ==
    /\ bd.pc \in {"parsed", "formatted", "format_raised", "done"}
    /\ bd.parsed.month \in 1..12
    /\ bd.parsed.day \in 1..31

\* C7 as claimed: for every well-formed s, parse(format(parse(s))) is
\* parse(s).
C7_Original ==
    (WellFormed /\ bd.pc = "done") => bd.reparsed = bd.parsed

\* C7 as amended: for every well-formed s, format_birthday renders parse(s)
\* as the display string "<Mon> <day>" or "<Mon> <day> <year>", and
\* parse_birthday rejects that string as an invalid format: the round trip
\* ends in the error, never in parse(s).  Parsing the formatted value gives
\* parse(s) again only for an accepted s whose month or day is 0, which
\* format_birthday returns as the raw string.
C7_Amended ==
    /\ (WellFormed /\ bd.pc \in {"formatted", "done"}) =>
           bd.formatted = month_abbr[bd.parsed.month] \o <<" ">> \o str(bd.parsed.day)
                              \o (IF bd.parsed.year \in {NoneInt, 0} THEN <<>>
                                  ELSE <<" ">> \o str(bd.parsed.year))
    /\ WellFormed => bd.pc # "format_raised"
    /\ (WellFormed /\ bd.pc = "done") => ~bd.reparsed.ok
    /\ bd.pc = "done" =>
           (bd.reparsed = bd.parsed) = (bd.parsed.month = 0 \/ bd.parsed.day = 0)

\* C7's case: "03-15" was parsed to (None, 3, 15), formatted as "Mar 15",
\* and "Mar 15" was rejected.
C7_Witness ==
    /\ bd.pc = "done"
    /\ bd.raw = <<"0", "3", "-", "1", "5">>
    /\ bd.parsed = [ok |-> TRUE, year |-> NoneInt, month |-> 3, day |-> 15]
    /\ bd.formatted = <<"M", "a", "r", " ", "1", "5">>
    /\ ~bd.reparsed.ok

---------------------------------------------------------------------------
(* /data_peek/{user_id} *)

get_data_peek(user_id) ==
    \/ /\ user_id \notin DOMAIN users
       /\ last' = NotFound("get_data_peek", user_id, NoLocals)
       /\ UNCHANGED <<users, files, clock, env, registered, bd, sessions>>
    \/ /\ user_id \in DOMAIN users
       /\ format_birthday(users[user_id]).raised
       /\ last' = Request("get_data_peek", user_id, NoLocals, NoLocals, <<>>, 500,
                          "Internal Server Error")
       /\ UNCHANGED <<users, files, clock, env, registered, bd, sessions>>
    \/ /\ user_id \in DOMAIN users
       /\ ~format_birthday(users[user_id]).raised
       /\ last' = Request("get_data_peek", user_id, NoLocals, NoLocals, <<>>, 200,
                          [first_name |-> users[user_id].first_name,
                           last_name |-> users[user_id].last_name,
                           phone_number |-> users[user_id].phone_number,
                           birthday |-> format_birthday(users[user_id]).value,
                           address |-> users[user_id].address,
                           updated_at |-> iso(users[user_id].data_peek_updated_at)])
       /\ UNCHANGED <<users, files, clock, env, registered, bd, sessions>>

\* The birthday of the payload is set, is not blank, and does not parse.
BadBirthday(payload) ==
    /\ payload.birthday # None
    /\ strip(payload.birthday) # <<>>
    /\ ~parse_birthday(payload.birthday).ok

\* The row update_data_peek builds from a payload whose birthday, if any,
\* is blank or parses
data_peek_row(user, payload, now) ==
    LET b == payload.birthday
        clear == b # None /\ strip(b) = <<>>
        set == b # None /\ strip(b) # <<>>
        parsed == parse_birthday(b)
    IN  touch_updated(
            [user EXCEPT
                !.birthday = IF clear THEN None ELSE IF set THEN b ELSE @,
                !.birthday_year = IF clear THEN NoneInt ELSE IF set THEN parsed.year ELSE @,
                !.birthday_month = IF clear THEN NoneInt ELSE IF set THEN parsed.month ELSE @,
                !.birthday_day = IF clear THEN NoneInt ELSE IF set THEN parsed.day ELSE @,
                !.first_name = IF payload.first_name # None THEN payload.first_name ELSE @,
                !.last_name = IF payload.last_name # None THEN payload.last_name ELSE @,
                !.phone_number = IF payload.phone_number # None THEN payload.phone_number ELSE @,
                !.address = IF payload.address # None THEN payload.address ELSE @,
                !.data_peek_updated_at = now],
            now)

\* update_data_peek committing the other fields of a payload whose birthday
\* it rejects
data_peek_commit_despite_birthday(user, payload, now) ==
    IF BadBirthday(payload)
    THEN [status |-> 400, body |-> "Invalid birthday format",
          row |-> data_peek_row(user, [payload EXCEPT !.birthday = None], now)]
    ELSE [status |-> 200, body |-> "updated", row |-> data_peek_row(user, payload, now)]

\* What update_data_peek answers and the row the table holds afterwards:
\* parse_birthday raises before any column is assigned and before the
\* commit, so a rejected payload leaves the row as it was.
data_peek_commit(user, payload, now) ==
    IF BadBirthday(payload)
    THEN [status |-> 400, body |-> "Invalid birthday format", row |-> user]
    ELSE [status |-> 200, body |-> "updated", row |-> data_peek_row(user, payload, now)]

update_data_peek(user_id, payload) ==
    \/ /\ user_id \notin DOMAIN users
       /\ last' = NotFound("update_data_peek", user_id, payload)
       /\ UNCHANGED <<users, files, clock, env, registered, bd, sessions>>
    \/ /\ user_id \in DOMAIN users
       /\ LET done == data_peek_commit(users[user_id], payload, clock)
          IN  /\ users' = [users EXCEPT ![user_id] = done.row]
              /\ last' = Request("update_data_peek", user_id, payload, NoLocals, <<>>,
                                 done.status, done.body)
       /\ UNCHANGED <<files, clock, env, registered, bd, sessions>>

clear_data_peek(user_id) ==
    \/ /\ user_id \notin DOMAIN users
       /\ last' = NotFound("clear_data_peek", user_id, NoLocals)
       /\ UNCHANGED <<users, files, clock, env, registered, bd, sessions>>
    \/ /\ user_id \in DOMAIN users
       /\ users' = [users EXCEPT ![user_id] =
                       touch_updated(
                           [@ EXCEPT !.first_name = None, !.last_name = None,
                                     !.phone_number = None, !.birthday = None,
                                     !.birthday_year = NoneInt, !.birthday_month = NoneInt,
                                     !.birthday_day = NoneInt, !.address = None,
                                     !.data_peek_updated_at = clock],
                           clock)]
       /\ last' = Request("clear_data_peek", user_id, NoLocals, NoLocals, <<>>, 200, "cleared")
       /\ UNCHANGED <<files, clock, env, registered, bd, sessions>>

---------------------------------------------------------------------------
(* /commands/{user_id} *)

get_commands(user_id) ==
    \/ /\ user_id \notin DOMAIN users
       /\ last' = NotFound("get_commands", user_id, NoLocals)
       /\ UNCHANGED <<users, files, clock, env, registered, bd, sessions>>
    \/ /\ user_id \in DOMAIN users
       /\ last' = Request("get_commands", user_id, NoLocals, NoLocals, <<>>, 200,
                          [command |-> users[user_id].command,
                           updated_at |-> iso(users[user_id].command_updated_at)])
       /\ UNCHANGED <<users, files, clock, env, registered, bd, sessions>>

\* The row update_commands commits: payload.command is assigned whether or
\* not the payload carried it.
commands_row(user, payload, now) ==
    touch_updated([user EXCEPT !.command = payload.command, !.command_updated_at = now], now)

update_commands(user_id, payload) ==
    \/ /\ user_id \notin DOMAIN users
       /\ last' = NotFound("update_commands", user_id, payload)
       /\ UNCHANGED <<users, files, clock, env, registered, bd, sessions>>
    \/ /\ user_id \in DOMAIN users
       /\ users' = [users EXCEPT ![user_id] = commands_row(@, payload, clock)]
       /\ last' = Request("update_commands", user_id, payload, NoLocals, <<>>, 200, "updated")
       /\ UNCHANGED <<files, clock, env, registered, bd, sessions>>

clear_commands(user_id) ==
    \/ /\ user_id \notin DOMAIN users
       /\ last' = NotFound("clear_commands", user_id, NoLocals)
       /\ UNCHANGED <<users, files, clock, env, registered, bd, sessions>>
    \/ /\ user_id \in DOMAIN users
       /\ users' = [users EXCEPT ![user_id] =
                       touch_updated([@ EXCEPT !.command = None,
                                               !.command_updated_at = clock], clock)]
       /\ last' = Request("clear_commands", user_id, NoLocals, NoLocals, <<>>, 200, "cleared")
       /\ UNCHANGED <<files, clock, env, registered, bd, sessions>>

---------------------------------------------------------------------------
(* POST /clear_all/{user_id} *)

clear_all(user_id) ==
    \/ /\ user_id \notin DOMAIN users
       /\ last' = NotFound("clear_all", user_id, NoLocals)
       /\ UNCHANGED <<users, files, clock, env, registered, bd, sessions>>
    \/ /\ user_id \in DOMAIN users
       /\ files' = delete_screenshot(files, users[user_id].screenshot_path)
       /\ users' = [users EXCEPT ![user_id] =
                       touch_updated(
                           [@ EXCEPT !.first_name = None, !.last_name = None,
                                     !.phone_number = None, !.birthday = None,
                                     !.birthday_year = NoneInt, !.birthday_month = NoneInt,
                                     !.birthday_day = NoneInt, !.address = None,
                                     !.note_name = None, !.note_body = None,
                                     !.contact = None, !.url = None,
                                     !.screenshot_path = None, !.command = None],
                           clock)]
       /\ last' = Request("clear_all", user_id, NoLocals, NoLocals, <<>>, 200, "all_cleared")
       /\ UNCHANGED <<clock, env, registered, bd, sessions>>

---------------------------------------------------------------------------
(* The server, seen from the data peek *)

\* birthday values of a DataPeekUpdate: absent, blank, year-month-day,
\* month-day, a month and a day above the range, a month below it, and a
\* string with no "-"
BirthdayValues ==
    { None,
      <<" ">>,
      <<"2", "0", "2", "4", "-", "0", "3", "-", "1", "5">>,
      <<"0", "3", "-", "1", "5">>,
      <<"1", "3", "-", "4", "0">>,
      <<"0", "-", "5">>,
      <<"3", "/", "1", "5">> }

\* The other fields of a DataPeekUpdate: none, one, the three others
ProfileValues ==
    { [first_name |-> None, last_name |-> None, phone_number |-> None, address |-> None],
      [first_name |-> <<"x">>, last_name |-> None, phone_number |-> None, address |-> None],
      [first_name |-> None, last_name |-> <<"y">>, phone_number |-> <<"1">>, address |-> <<"z">>] }

DataPayloads ==
    { [first_name |-> p.first_name, last_name |-> p.last_name,
       phone_number |-> p.phone_number, birthday |-> b, address |-> p.address] :
          p \in ProfileValues, b \in BirthdayValues }

NextData ==
    \/ \E k \in AdminKeys, u \in UserIds, p \in Passwords : create_user(k, u, p)
    \/ \E u \in UserIds : get_data_peek(u)
    \/ \E u \in UserIds, p \in DataPayloads : update_data_peek(u, p)
    \/ \E u \in UserIds : clear_data_peek(u)
    \/ \E u \in UserIds : clear_all(u)
    \/ Tick

SpecData == Init /\ [][NextData]_vars


\* C6 as claimed: parse_birthday rejects a month outside 1..12 and a day
\* outside 1..31, so a stored birthday always has its month in 1..12 and its
\* day in 1..31.
C6_Original ==
    /\ (/\ last.op = "update_data_peek"
        /\ last.status # 404
        /\ last.payload.birthday # None
        /\ parse_birthday(last.payload.birthday).ok
        /\ \/ parse_birthday(last.payload.birthday).month \notin 1..12
           \/ parse_birthday(last.payload.birthday).day \notin 1..31)
           => last.status = 400
    /\ \A u \in DOMAIN users :
           users[u].birthday # None =>
               /\ users[u].birthday_month \in 1..12
               /\ users[u].birthday_day \in 1..31

\* C8: an update_data_peek whose birthday does not parse is answered 400
\* "Invalid birthday format" and leaves the whole row as it was: the
\* birthday columns, the other fields of the payload, the timestamps.
C8_RejectedBirthdayChangesNothing ==
    [][(last'.op = "update_data_peek" /\ last'.status # 404 /\ BadBirthday(last'.payload))
           => /\ last'.status = 400
              /\ last'.body = "Invalid birthday format"
              /\ users' = users]_vars

\* C8's case: a payload with first_name "x" and the birthday "3/15" was
\* rejected; the row still has the birthday stored before and no first_name.
C8_Witness ==
    /\ last.op = "update_data_peek"
    /\ last.status = 400
    /\ last.payload.birthday = <<"3", "/", "1", "5">>
    /\ last.payload.first_name = <<"x">>
    /\ Row.first_name = None
    /\ Row.birthday = <<"0", "3", "-", "1", "5">>
    /\ Row.birthday_month = 3
    /\ Row.data_peek_updated_at < clock

\* C9 as claimed: get_data_peek, which formats the stored birthday, returns
\* a result for every record the accepted updates and the clears can leave.
C9_Original ==
    (last.op = "get_data_peek" /\ last.status # 404) => last.status = 200

---------------------------------------------------------------------------
(* The server, seen from the four partial updates *)

CommandValues == {None, <<"x">>}

UpdateDataPayloads ==
    { [first_name |-> <<"x">>, last_name |-> None, phone_number |-> None,
       birthday |-> None, address |-> None],
      [first_name |-> None, last_name |-> None, phone_number |-> None,
       birthday |-> <<"0", "3", "-", "1", "5">>, address |-> <<"z">>] }

UpdateNotePayloads ==
    { [note_name |-> <<"A">>, note_body |-> None],
      [note_name |-> None, note_body |-> <<"B", " ">>] }

UpdateScreenForms ==
    { [screenshot |-> <<"shot", ".png">>, contact |-> None, url |-> None],
      [screenshot |-> NoFile, contact |-> <<"c">>, url |-> <<"w">>] }

NextUpdates ==
    \/ \E k \in AdminKeys, u \in UserIds, p \in Passwords : create_user(k, u, p)
    \/ \E u \in UserIds, p \in UpdateDataPayloads : update_data_peek(u, p)
    \/ \E u \in UserIds, p \in UpdateNotePayloads : update_note_peek(u, p)
    \/ \E u \in UserIds, f \in UpdateScreenForms :
           update_screen_peek(u, f.screenshot, f.contact, f.url)
    \/ \E u \in UserIds, c \in CommandValues : update_commands(u, [command |-> c])
    \/ \E u \in UserIds : get_commands(u)
    \/ \E u \in UserIds : clear_commands(u)
    \/ Tick

SpecUpdates == Init /\ [][NextUpdates]_vars

\* This step is a partial update that found its user and was accepted.
PartialUpdateStep ==
    /\ last'.op \in {"update_data_peek", "update_note_peek", "update_screen_peek",
                     "update_commands"}
    /\ last'.status = 200

\* The step leaves the stored fields its payload does not carry as they were.
AbsentFieldsKept ==
    LET p == last'.payload
        before == users[last'.user_id]
        after == users'[last'.user_id]
    IN  CASE last'.op = "update_data_peek" ->
                 /\ p.first_name = None => after.first_name = before.first_name
                 /\ p.last_name = None => after.last_name = before.last_name
                 /\ p.phone_number = None => after.phone_number = before.phone_number
                 /\ p.address = None => after.address = before.address
                 /\ p.birthday = None =>
                        /\ after.birthday = before.birthday
                        /\ after.birthday_year = before.birthday_year
                        /\ after.birthday_month = before.birthday_month
                        /\ after.birthday_day = before.birthday_day
          [] last'.op = "update_note_peek" ->
                 /\ p.note_name = None => after.note_name = before.note_name
                 /\ p.note_body = None => after.note_body = before.note_body
          [] last'.op = "update_screen_peek" ->
                 /\ p.screenshot = NoFile => after.screenshot_path = before.screenshot_path
                 /\ p.contact = None => after.contact = before.contact
                 /\ p.url = None => after.url = before.url
          [] last'.op = "update_commands" ->
                 p.command = None => after.command = before.command

\* C5 as claimed: update_data_peek, update_note_peek, update_screen_peek and
\* update_commands each leave every stored field that is absent from the
\* payload at the value it had before the call.
C5_Original == [][PartialUpdateStep => AbsentFieldsKept]_vars


---------------------------------------------------------------------------
(* The order of the notifications of one patch *)

\* The last request changed note_name and note_body, and both changes
\* qualify for a notification.
BothQualify == Qualifies("note_name") /\ Qualifies("note_body")

\* C11: when one update_note_peek patch changes both note_name and note_body
\* and both qualify, the handler makes exactly two calls of send_apns_push,
\* the note_name call first and the note_body call second, on every such
\* patch and whatever the first send did; the note_body text is the name the
\* patch has just stored (trimmed), followed by " body updated".
C11_NameBeforeBodyWithNewName ==
    BothQualify =>
        /\ Len(last.pushes) = 2
        /\ last.pushes[1].type = "note_name"
        /\ last.pushes[1].body = strip(last.payload.note_name)
        /\ last.pushes[2].type = "note_body"
        /\ last.pushes[2].body = strip(last.payload.note_name) \o BodyUpdated

\* C11's case: one patch took note_name from "A" to "B " and changed
\* note_body, both channels enabled; the note_name send failed and the
\* note_body send, made after it, went out with the text "B body updated".
C11_Witness ==
    /\ BothQualify
    /\ last.locals.old_name = <<"A">>
    /\ last.payload.note_name = <<"B", " ">>
    /\ Len(last.pushes) = 2
    /\ last.pushes[1].type = "note_name"
    /\ last.pushes[1].result = "failed"
    /\ last.pushes[2].result = "sent"
    /\ last.pushes[2].body = <<"B">> \o BodyUpdated


---------------------------------------------------------------------------
(* update_note_peek in several threads *)

\* update_note_peek is a "def" handler, which FastAPI runs in a thread of its
\* pool, and get_db gives every request a Session of its own on the one
\* SQLite file.  The handler takes no lock.  Between its three accesses to
\* the database the other requests run:
\*   read    get_user_or_404 SELECTs the row; the assignments that follow
\*           are made on the Session's object
\*   commit  db.commit() flushes one UPDATE and commits it, and expires the
\*           object
\*   notify  user.apns_device_token reloads the expired object; the pushes
\*           are made from what was reloaded and the request returns
\* A request is in flight from its read to its return.
InFlight(r) == sessions[r].pc \in {"commit", "notify"}

\* The UPDATE of the flush: it sets the columns whose value on the Session's
\* object differs from the value the Session loaded, and leaves the others
\* as the database has them.
flush(row, loaded, pending) ==
    [c \in DOMAIN row |-> IF pending[c] # loaded[c] THEN pending[c] ELSE row[c]]

\* update_note_peek up to db.commit(): the row is read and the payload is
\* compared with it.  Requests arrive in the order of their numbers.
update_note_peek_read(r, user_id, payload) ==
    /\ sessions[r].pc = "idle"
    /\ \A q \in Requests : q < r => sessions[q].pc # "idle"
    /\ \/ /\ user_id \notin DOMAIN users
          /\ sessions' = [sessions EXCEPT ![r] =
                 [pc |-> "done", user_id |-> user_id, payload |-> payload,
                  locals |-> NoLocals, during |-> {q \in Requests : InFlight(q)},
                  pushes |-> <<>>, status |-> 404]]
          /\ last' = NotFound("update_note_peek", user_id, payload)
       \/ /\ user_id \in DOMAIN users
          /\ LET user == users[user_id]
                 old_name == user.note_name
                 old_body == user.note_body
             IN  sessions' = [sessions EXCEPT ![r] =
                     [pc |-> "commit", user_id |-> user_id, payload |-> payload,
                      loaded |-> user,
                      user |-> note_peek_row(user, payload, clock),
                      locals |-> [old_name |-> old_name, old_body |-> old_body,
                                  name_changed |-> name_changed(payload, old_name),
                                  body_changed |-> body_changed(payload, old_body)],
                      during |-> {q \in Requests : InFlight(q)},
                      pushes |-> <<>>, status |-> 0]]
          /\ UNCHANGED last
    /\ UNCHANGED <<users, files, clock, env, registered, bd>>

\* db.commit()
update_note_peek_commit(r) ==
    /\ sessions[r].pc = "commit"
    /\ LET s == sessions[r]
       IN  /\ users' = [users EXCEPT ![s.user_id] = flush(@, s.loaded, s.user)]
           /\ sessions' = [sessions EXCEPT ![r] =
                  [pc |-> "notify", user_id |-> s.user_id, payload |-> s.payload,
                   locals |-> s.locals, during |-> s.during,
                   pushes |-> <<>>, status |-> 0]]
    /\ UNCHANGED <<files, clock, env, last, registered, bd>>

\* update_note_peek after db.commit(): token, new_name and the channel
\* flags are read from the row as it is now, and the pushes are made.
update_note_peek_notify(r) ==
    /\ sessions[r].pc = "notify"
    /\ LET s == sessions[r]
           user == users[s.user_id]
           nc == s.locals.name_changed
           bc == s.locals.body_changed
           new_name == strip(OrEmpty(user.note_name))
       IN  \E o1 \in OutcomesOf(notify_name(user, nc, new_name)),
              o2 \in OutcomesOf(notify_body(user, bc, new_name)) :
           LET pushes == note_pushes(env, user, nc, bc, new_name, o1, o2)
               locals == [old_name |-> s.locals.old_name, old_body |-> s.locals.old_body,
                          name_changed |-> nc, body_changed |-> bc,
                          new_name |-> new_name]
               status == IF Raised(pushes) THEN 500 ELSE 200
           IN
           /\ sessions' = [sessions EXCEPT ![r] =
                  [pc |-> "done", user_id |-> s.user_id, payload |-> s.payload,
                   locals |-> locals, during |-> s.during,
                   token |-> user.apns_device_token,
                   push_note_name_enabled |-> user.push_note_name_enabled,
                   pushes |-> pushes, status |-> status]]
           /\ last' = Request("update_note_peek", s.user_id, s.payload, locals, pushes,
                              status,
                              IF Raised(pushes) THEN "Internal Server Error" ELSE "updated")
    /\ UNCHANGED <<users, files, clock, env, registered, bd>>

\* The patches sent: a name, and another name
ThreadPayloads ==
    { [note_name |-> <<"A">>, note_body |-> None],
      [note_name |-> <<"B", " ">>, note_body |-> None] }

ThreadTokenValues == {<<" ">>, <<"t", "1">>}

ThreadPrefsValues == {EmptyPrefs}

NextThreads ==
    \/ \E k \in AdminKeys, u \in UserIds, p \in Passwords : create_user(k, u, p)
    \/ \E u \in UserIds, t \in ThreadTokenValues, p \in ThreadPrefsValues : push_register(u, t, p)
    \/ \E r \in Requests, u \in UserIds, p \in ThreadPayloads : update_note_peek_read(r, u, p)
    \/ \E r \in Requests : update_note_peek_commit(r)
    \/ \E r \in Requests : update_note_peek_notify(r)
    \/ Tick

SpecThreads == Init /\ [][NextThreads]_vars

\* The request has returned "updated".
Returned(r) == sessions[r].pc = "done" /\ sessions[r].status = 200

\* The note_name pushes the request made
NamePushes(r) ==
    {i \in 1..Len(sessions[r].pushes) : sessions[r].pushes[i].type = "note_name"}

\* r and q are two concurrent requests and nothing else: r arrived with no
\* request in flight, q arrived while r was in flight, both have returned,
\* and every other request returned before r arrived or has not arrived.
ConcurrentPair(r, q) ==
    /\ r < q
    /\ Returned(r)
    /\ Returned(q)
    /\ sessions[r].during = {}
    /\ sessions[q].during = {r}
    /\ \A p \in Requests \ {r, q} :
           \/ sessions[p].pc = "idle"
           \/ p < r /\ sessions[p].pc = "done"

\* r and q are two concurrent patches setting note_name from a value A to the
\* same different value B, non-empty after trimming; each found a device
\* token registered and the note_name channel enabled, and APNs is configured.
SameRename(r, q) ==
    /\ ConcurrentPair(r, q)
    /\ sessions[r].locals.old_name # None
    /\ sessions[r].payload.note_name # None
    /\ sessions[r].payload.note_name # sessions[r].locals.old_name
    /\ sessions[q].payload.note_name = sessions[r].payload.note_name
    /\ TruthyStr(strip(sessions[r].payload.note_name))
    /\ \A p \in {r, q} : /\ TruthyStr(sessions[p].token)
                         /\ sessions[p].push_note_name_enabled
    /\ apns_is_configured(env)

\* C12 as claimed: concurrent update_note_peek requests for one user are
\* serialized, each comparing its payload with the value committed by the
\* request before it, so two concurrent patches setting note_name from A to
\* the same B deliver exactly one note_name notification in total.
C12_Original ==
    \A r \in Requests, q \in Requests :
        SameRename(r, q) =>
            /\ Cardinality(NamePushes(r)) + Cardinality(NamePushes(q)) = 1
            /\ sessions[q].locals.old_name = sessions[r].payload.note_name

===========================================================================
